---- MODULE Spec2Model ----
(***************************************************************************)
(* Model of the Steadicam StageDirector: the model-update synchronization  *)
(* pipeline (stageModelWrapper.Update -> modelChan -> syncModelUpdates ->  *)
(* latestModel), the session context, and the Start/Stop lifecycle.        *)
(*                                                                         *)
(* Threads of control:                                                     *)
(*   - the caller (test) thread: WithTimeout, WithViewCapture, Start,      *)
(*     Stop, ResetMetrics, getCurrentView, WaitForText/WaitForMode, Type,  *)
(*     the four assertions, CaptureTrackingShot;                           *)
(*   - two Update paths: "prog" (the bubbletea event loop of d.program)    *)
(*     and "direct" (wrapper.Update called from another goroutine, as the  *)
(*     benchmarks do);                                                     *)
(*   - the background consumer goroutine syncModelUpdates.                 *)
(* Every atomic operation (atomic.AddInt64/StoreInt64/LoadInt64, channel   *)
(* send/receive, critical section entry) is one step.                      *)
(*                                                                         *)
(* Model states of the driven program are opaque identifiers: 0 and 1 are  *)
(* possible initial models (0 renders an empty view, 1 a non-empty one),   *)
(* every successful inner Update creates a fresh identifier.               *)
(***************************************************************************)
EXTENDS Integers, Sequences, FiniteSets, TLC

\* ---------------------------------------------------------------- bounds
\* cap(modelChan) in the model (make(chan modelUpdate, 50) in the source)
Capacity == 2
\* number of model states the inner Update may create in one behaviour
MaxUpdates == 3
\* number of panicking / nil-returning inner Update calls
MaxFaults == 1
\* number of public-method calls made by the caller thread
MaxCalls == 2
\* number of trips recorded directly on a Handler
MaxRecords == 3

Producers == {"prog", "direct"}

InitialModels == {0, 1}

VARIABLES
    modelChan,        \* d.modelChan: FIFO of [model, sequence]
    latestModel,      \* d.latestModel
    latestSeq,        \* sequence field of the update stored in latestModel
    updateSeq,        \* d.updateSeq
    lastProcessedSeq, \* d.lastProcessedSeq
    droppedUpdates,   \* d.droppedUpdates
    updatesSent,      \* d.updatesSent
    updatesProcessed, \* d.updatesProcessed
    bufferOverflows,  \* d.bufferOverflows
    sequenceGaps,     \* d.sequenceGaps
    duplicateUpdates, \* d.duplicateUpdates
    ctxCur,           \* identity of the context currently stored in d.ctx
    ctxDone,          \* identities of the contexts whose Done() is closed
    cpc,              \* position of the syncModelUpdates goroutine
    update,           \* syncModelUpdates: local `update`
    currentSeq,       \* syncModelUpdates: local `currentSeq`
    cctx,             \* context whose Done() the consumer's select waits on
    ppc,              \* position of each Update path
    pnew,             \* Update: local `update` (model, sequence) per path
    program,          \* d.program: "nil", "running", "exited"
    quit,             \* program.Quit() has been called on d.program
    started,          \* d.started
    captureViews,     \* d.config.CaptureViews
    failed,           \* d.failed
    lastTrip,         \* d.lastTrip
    trips,            \* d.tripHandler.trips
    stumbles,         \* d.tripHandler.stumbles
    snapshots,        \* d.snapshots
    result,           \* value returned by the last Stop call
    callerPc,         \* position of the caller thread
    calls,            \* public-method calls made so far
    faults,           \* failing inner Update calls so far
    created,          \* number of model states created by inner Update calls
    newest,           \* model of the update holding the highest sequence number
    observedSeq,      \* sequence of the state seen by the last read
    published,        \* sequences of the updates enqueued so far
    wait,             \* WaitFor*: arguments and course of the current/last wait
    timer,            \* WaitFor*: timeout.C of the wait's timer is ready
    unsynced,         \* d.failed was set by an Update goroutine and the caller
                      \* thread has not synchronized with that write yet
    interactions,     \* d.interactions: the recorded StageActions
    inbox,            \* message handed to the event loop of d.program by Send
    progInput,        \* input buffer of the model held by the event loop
    inputOf,          \* CurrentInput() of every model state created so far
    typing,           \* Type: text, index of the next rune, view before Send
    cfgTimeout,       \* d.config.Timeout
    closed,           \* Close() of the driven model has been called
    policy,           \* d.tripHandler.policy
    warned,           \* method named by the last "ignoring"/"already started"
                      \* warning written with d.t.Logf
    exclusive,        \* Update is only ever called from one goroutine at a
                      \* time: its calls never overlap
    reported,         \* some HasFailed() call made before Stop has returned
                      \* true
    shot,             \* the model states the reads of the captureSnapshot in
                      \* progress have returned so far
    updateMu,         \* the thread that holds d.updateMu, or "none"
    rival             \* a Type call made from a second test goroutine

syncVars == <<modelChan, latestModel, latestSeq, updateSeq, lastProcessedSeq,
              droppedUpdates, updatesSent, updatesProcessed, bufferOverflows,
              sequenceGaps, duplicateUpdates>>
ctxVars == <<ctxCur, ctxDone>>
consumerVars == <<cpc, update, currentSeq, cctx>>
producerVars == <<ppc, pnew>>
lifeVars == <<program, quit, started, captureViews>>
tripVars == <<failed, lastTrip, trips, stumbles>>
ghostVars == <<created, newest, observedSeq, published>>
waitVars == <<wait, timer, unsynced>>
typeVars == <<inbox, progInput, inputOf, typing>>
setupVars ==
    <<cfgTimeout, closed, policy, warned, exclusive, reported, shot>>
lockVars == <<updateMu, rival>>
configVars == <<setupVars, lockVars>>

vars == <<syncVars, ctxVars, consumerVars, producerVars, lifeVars, tripVars,
          snapshots, result, callerPc, calls, faults, ghostVars, waitVars,
          interactions, typeVars, configVars>>

NoUpdate == [model |-> 0, sequence |-> 0]
NoTrip == [type |-> "none", severity |-> "none"]
NoResult == [success |-> FALSE, error |-> "not stopped"]
NoWait == [kind |-> "none", expected |-> "", failedAtCall |-> FALSE,
           polled |-> FALSE, held |-> FALSE, timedOut |-> FALSE]

NoKey == "none"

\* the text the second goroutine types
RivalText == <<"b", "a">>

NoRival == [pc |-> "idle", i |-> 0, base |-> 0]

\* tea.KeyMsg{Type: tea.KeyBackspace}
Backspace == "backspace"

\* the runes of the texts typed
Runes == {"a", "b"}

\* input buffers the driven program may begin with
InitialInputs == {"", "a", "ab"}
NoTyping == [text |-> <<>>, i |-> 0, prev |-> <<"", "">>, before |-> "",
             base |-> 0, started |-> FALSE]

\* ------------------------------------------------------ driven program
\* REPLModel.View() of a model state: only the initial model 0 renders "".
View(m) == IF m = 0 THEN "" ELSE "view"

\* REPLModel.CurrentMode() of a model state: the initial models are in mode
\* "initial", every state created by an Update is in mode "result".
Mode(m) == IF m >= 2 THEN "result" ELSE "initial"

\* texts and modes the test waits for or asserts
Texts == {"view", "never"}
Modes == {"result"}

\* strings.Contains(view, text) for the views and texts above
Contains(v, text) == v = text

\* identifier of the state created by the next successful inner Update
FreshModel == created + 2

\* ------------------------------------------------------------ trip package
NewTrip(errorType) == [type |-> errorType, severity |-> "Error"]

NewStumble(errorType) == [type |-> errorType, severity |-> "Stumble"]

NewFall(errorType) == [type |-> errorType, severity |-> "Fall"]

newStageTrip(errorType) == NewTrip(errorType)

\* trip.DefaultPolicy()
DefaultPolicy == [stopOnFall |-> TRUE, maxStumbles |-> 10]

\* stumble limits a Policy is built with in the model
StumbleLimits == 0..2

\* the policies a Handler is built with in the model
Policies == [stopOnFall : BOOLEAN, maxStumbles : StumbleLimits]

\* variant: the limit itself already counts as too many
TooManyStumblesAtLimit(n, max) == max > 0 /\ n >= max

\* h.policy.MaxStumbles > 0 && len(h.stumbles) > h.policy.MaxStumbles
TooManyStumbles(n, max) == max > 0 /\ n > max

\* variant: only a Fall is taken to be unrecoverable
CanRecoverUnlessFall(t) == t.severity # "Fall"

CanRecover(t) == t.severity = "Stumble"

IsFall(t) == t.severity = "Fall"

\* ------------------------------------------------------- pure predicates
\* variant: one slot too many is taken to be free
HasRoomOffByOne(q) == Len(q) <= Capacity

\* the non-blocking send succeeds iff the channel buffer has a free slot
HasRoom(q) == Len(q) < Capacity

\* variant: only an equal sequence number counts as a duplicate
IsDuplicateEqualOnly(seq, cur) == seq = cur

\* syncModelUpdates: update.sequence <= currentSeq
IsDuplicate(seq, cur) == seq <= cur

\* variant: the successor is already taken to be a gap
IsGapOffByOne(seq, cur) == seq > cur

\* syncModelUpdates: update.sequence > currentSeq+1
IsGap(seq, cur) == seq > cur + 1

\* d.modelMu is write-held between Lock() and Unlock() of the consumer
WriteLocked == cpc \in {"store", "count"}

\* <-d.ctx.Done() is ready for context c
Done(c) == c \in ctxDone

\* ------------------------------------------------------------------ Init
\* NewStageDirectorWithConfig, for any policy the handler may be built with
\* and either way of calling Update (overlapping calls or not)
InitAnyInput ==
    /\ modelChan = <<>>
    /\ latestModel \in InitialModels
    /\ created = 0
    /\ newest = latestModel
    /\ latestSeq = 0
    /\ updateSeq = 0
    /\ lastProcessedSeq = 0
    /\ droppedUpdates = 0
    /\ updatesSent = 0
    /\ updatesProcessed = 0
    /\ bufferOverflows = 0
    /\ sequenceGaps = 0
    /\ duplicateUpdates = 0
    /\ ctxCur = 0
    /\ ctxDone = {}
    /\ cpc = "spawned"
    /\ update = NoUpdate
    /\ currentSeq = 0
    /\ cctx = 0
    /\ ppc = [p \in Producers |-> "idle"]
    /\ pnew = [p \in Producers |-> NoUpdate]
    /\ program = "nil"
    /\ quit = FALSE
    /\ started = FALSE
    /\ captureViews \in BOOLEAN
    /\ failed = FALSE
    /\ lastTrip = NoTrip
    /\ trips = <<>>
    /\ stumbles = <<>>
    /\ snapshots = <<>>
    /\ result = NoResult
    /\ callerPc = "idle"
    /\ calls = 0
    /\ faults = 0
    /\ observedSeq = 0
    /\ published = {}
    /\ wait = NoWait
    /\ timer = FALSE
    /\ unsynced = FALSE
    /\ interactions = <<>>
    /\ inbox = NoKey
    /\ progInput \in InitialInputs
    /\ inputOf = [m \in InitialModels |-> progInput]
    /\ typing = NoTyping
    /\ cfgTimeout = "default"
    /\ closed = FALSE
    /\ warned = "none"
    /\ exclusive \in BOOLEAN
    /\ reported = FALSE
    /\ shot = <<>>
    /\ updateMu = "none"
    /\ rival = NoRival
    /\ policy \in Policies \cup {DefaultPolicy}

\* an initial model with an empty input buffer
InitAnyPolicy == InitAnyInput /\ progInput = ""

\* trip.NewHandler("stage_director", trip.DefaultPolicy())
Init == InitAnyPolicy /\ policy = DefaultPolicy /\ ~exclusive

\* --------------------------------------------------- helpers with effects
\* d.cancel(): closes Done() of the context created together with it
cancel == ctxDone' = ctxDone \cup {ctxCur}

\* Handler.Record
Record(t) ==
    /\ trips' = IF t.severity = "Stumble" THEN trips ELSE Append(trips, t)
    /\ stumbles' = IF t.severity = "Stumble" THEN Append(stumbles, t) ELSE stumbles

\* Handler.ShouldContinue
ShouldContinue ==
    /\ ~(policy.stopOnFall /\ \E i \in 1..Len(trips) : IsFall(trips[i]))
    /\ ~TooManyStumbles(Len(stumbles), policy.maxStumbles)

\* StageDirector.recordTrip
recordTrip(t) ==
    /\ Record(t)
    /\ lastTrip' = t
    /\ failed' = (failed \/ ~CanRecover(t))

\* a StageSnapshot whose view, mode and input are read from d.latestModel
\* within one step; each field holds the model state it was read from
Snapshot(reason) ==
    [reason |-> reason, view |-> latestModel, mode |-> latestModel,
     input |-> latestModel]

\* ------------------------------------------------- stageModelWrapper.Update
\* the path p may run an Update call: the program's path while the program
\* runs, and under exclusive calls only while no other call is in progress
PathLive(p) ==
    /\ p = "prog" => program = "running"
    /\ exclusive => \A q \in Producers \ {p} : ppc[q] = "idle"

\* model states the inner Update may create in one behaviour; calls that
\* never overlap get one more, which a gap after a dropped update needs
UpdateBudget == IF exclusive THEN MaxUpdates + 1 ELSE MaxUpdates

\* the input buffers of at most n runes
RECURSIVE Buffers(_)
Buffers(n) ==
    IF n = 0
    THEN {""}
    ELSE LET shorter == Buffers(n - 1)
         IN  shorter \cup {b \o r : b \in shorter, r \in Runes}

\* input[:len(input)-1]
Chopped(input) ==
    CHOOSE b \in Buffers(Len(input) - 1) : \E r \in Runes : b \o r = input

\* the driven program's update rule on its input buffer: a rune key is
\* appended, a backspace removes the last rune of a non-empty buffer, any
\* other message leaves the buffer as it is
Keyed(input, key) ==
    IF key = NoKey
    THEN input
    ELSE IF key = Backspace
         THEN IF input = "" THEN input ELSE Chopped(input)
         ELSE input \o key

\* w.REPLModel.Update(msg) returns a REPLModel: on the program's path msg is
\* the message the event loop holds (a key sent by the harness, or one of
\* the program's own messages); the direct path is called with messages
\* that are no keys, on the wrapper around the initial model
ProducerCall(p) ==
    /\ ppc[p] = "idle"
    /\ PathLive(p)
    /\ created < UpdateBudget
    /\ created' = created + 1
    /\ pnew' = [pnew EXCEPT ![p] = [model |-> FreshModel, sequence |-> 0]]
    /\ ppc' = [ppc EXCEPT ![p] = "seq"]
    /\ progInput' = IF p = "prog" THEN Keyed(progInput, inbox) ELSE progInput
    /\ inputOf' = (FreshModel :> IF p = "prog"
                                 THEN Keyed(progInput, inbox)
                                 ELSE inputOf[0]) @@ inputOf
    /\ inbox' = IF p = "prog" THEN NoKey ELSE inbox
    /\ UNCHANGED <<syncVars, ctxVars, consumerVars, lifeVars, tripVars,
                   snapshots, result, callerPc, calls, faults, newest,
                   observedSeq, published, waitVars, interactions, typing,
                   configVars>>

\* seq := atomic.AddInt64(&w.director.updateSeq, 1)
ProducerGenSeq(p) ==
    /\ ppc[p] = "seq"
    /\ updateSeq' = updateSeq + 1
    /\ pnew' = [pnew EXCEPT ![p].sequence = updateSeq + 1]
    /\ ppc' = [ppc EXCEPT ![p] = "send"]
    /\ newest' = pnew[p].model
    /\ UNCHANGED <<modelChan, latestModel, latestSeq, lastProcessedSeq,
                   droppedUpdates, updatesSent, updatesProcessed,
                   bufferOverflows, sequenceGaps, duplicateUpdates, ctxVars,
                   consumerVars, lifeVars, tripVars, snapshots, result,
                   callerPc, calls, faults, created, observedSeq, published,
                   waitVars, interactions, typeVars, configVars>>

\* select { case w.director.modelChan <- update: ... default: ... }
ProducerSend(p) ==
    /\ ppc[p] = "send"
    /\ IF HasRoom(modelChan)
       THEN /\ modelChan' = Append(modelChan, pnew[p])
            /\ published' = published \cup {pnew[p].sequence}
            /\ ppc' = [ppc EXCEPT ![p] = "sent"]
       ELSE /\ UNCHANGED <<modelChan, published>>
            /\ ppc' = [ppc EXCEPT ![p] = "overflow"]
    /\ UNCHANGED <<latestModel, latestSeq, updateSeq, lastProcessedSeq,
                   droppedUpdates, updatesSent, updatesProcessed,
                   bufferOverflows, sequenceGaps, duplicateUpdates, ctxVars,
                   consumerVars, pnew, lifeVars, tripVars, snapshots, result,
                   callerPc, calls, faults, created, newest, observedSeq,
                   waitVars, interactions, typeVars, configVars>>

\* atomic.AddInt64(&w.director.updatesSent, 1)
ProducerCountSent(p) ==
    /\ ppc[p] = "sent"
    /\ updatesSent' = updatesSent + 1
    /\ ppc' = [ppc EXCEPT ![p] = "idle"]
    /\ UNCHANGED <<modelChan, latestModel, latestSeq, updateSeq,
                   lastProcessedSeq, droppedUpdates, updatesProcessed,
                   bufferOverflows, sequenceGaps, duplicateUpdates, ctxVars,
                   consumerVars, pnew, lifeVars, tripVars, snapshots, result,
                   callerPc, calls, faults, ghostVars, waitVars,
                   interactions, typeVars, configVars>>

\* atomic.AddInt64(&w.director.bufferOverflows, 1)
ProducerCountOverflow(p) ==
    /\ ppc[p] = "overflow"
    /\ bufferOverflows' = bufferOverflows + 1
    /\ ppc' = [ppc EXCEPT ![p] = "dropped"]
    /\ UNCHANGED <<modelChan, latestModel, latestSeq, updateSeq,
                   lastProcessedSeq, droppedUpdates, updatesSent,
                   updatesProcessed, sequenceGaps, duplicateUpdates, ctxVars,
                   consumerVars, pnew, lifeVars, tripVars, snapshots, result,
                   callerPc, calls, faults, ghostVars, waitVars,
                   interactions, typeVars, configVars>>

\* variant: the dropped update is not counted
ProducerSkipDropped(p) ==
    /\ ppc[p] = "dropped"
    /\ ppc' = [ppc EXCEPT ![p] = "idle"]
    /\ UNCHANGED <<syncVars, ctxVars, consumerVars, pnew, lifeVars, tripVars,
                   snapshots, result, callerPc, calls, faults, ghostVars,
                   waitVars, interactions, typeVars, configVars>>

\* atomic.AddInt64(&w.director.droppedUpdates, 1)
ProducerCountDropped(p) ==
    /\ ppc[p] = "dropped"
    /\ droppedUpdates' = droppedUpdates + 1
    /\ ppc' = [ppc EXCEPT ![p] = "idle"]
    /\ UNCHANGED <<modelChan, latestModel, latestSeq, updateSeq,
                   lastProcessedSeq, updatesSent, updatesProcessed,
                   bufferOverflows, sequenceGaps, duplicateUpdates, ctxVars,
                   consumerVars, pnew, lifeVars, tripVars, snapshots, result,
                   callerPc, calls, faults, ghostVars, waitVars,
                   interactions, typeVars, configVars>>

\* captureErrorSnapshot + recordTrip + d.cancel(), shared by both fail-fast
\* handlers; getCurrentView inside captureErrorSnapshot needs the read lock
FailFast(reason, tripType) ==
    /\ ~WriteLocked
    /\ snapshots' = Append(snapshots, Snapshot(reason))
    /\ recordTrip(newStageTrip(tripType))
    /\ unsynced' = (unsynced \/ ~failed)
    /\ cancel

\* w.REPLModel.Update(msg) panics: recover() -> handleModelPanic.  Update
\* then returns a nil tea.Model; whether the bubbletea loop survives that
\* is decided outside this repository, so both outcomes are allowed.
ProducerPanic(p) ==
    /\ ppc[p] = "idle"
    /\ PathLive(p)
    /\ faults < MaxFaults
    /\ faults' = faults + 1
    /\ inbox' = IF p = "prog" THEN NoKey ELSE inbox
    /\ FailFast("error_model_panic", "MODEL_PANIC")
    /\ \E crash \in BOOLEAN :
          program' = IF p = "prog" /\ crash THEN "exited" ELSE program
    /\ UNCHANGED <<syncVars, ctxCur, consumerVars, producerVars, quit,
                   started, captureViews, result, callerPc, calls,
                   ghostVars, wait, timer,
                   interactions, progInput, inputOf, typing, configVars>>

\* w.REPLModel.Update(msg) returns nil: handleInvalidModelState, the old
\* wrapper is returned and nothing is published
ProducerInvalid(p) ==
    /\ ppc[p] = "idle"
    /\ PathLive(p)
    /\ faults < MaxFaults
    /\ faults' = faults + 1
    /\ inbox' = IF p = "prog" THEN NoKey ELSE inbox
    /\ FailFast("error_invalid_model_state", "INVALID_MODEL_STATE")
    /\ UNCHANGED <<syncVars, ctxCur, consumerVars, producerVars, lifeVars,
                   result, callerPc, calls, ghostVars, wait, timer,
                   interactions, progInput, inputOf, typing, configVars>>

\* --------------------------------------------- StageDirector.syncModelUpdates
\* the goroutine started by the constructor reaches its select and evaluates
\* d.ctx.Done() (an unsynchronized read of d.ctx: it sees whichever context
\* is stored at that moment)
ConsumerStart ==
    /\ cpc = "spawned"
    /\ cctx' = ctxCur
    /\ cpc' = "select"
    /\ UNCHANGED <<syncVars, ctxVars, update, currentSeq, producerVars,
                   lifeVars, tripVars, snapshots, result, callerPc, calls,
                   faults, ghostVars, waitVars,
                   interactions, typeVars, configVars>>

\* case update := <-d.modelChan
ConsumerReceive ==
    /\ cpc = "select"
    /\ modelChan # <<>>
    /\ update' = Head(modelChan)
    /\ modelChan' = Tail(modelChan)
    /\ cpc' = "load"
    /\ UNCHANGED <<latestModel, latestSeq, updateSeq, lastProcessedSeq,
                   droppedUpdates, updatesSent, updatesProcessed,
                   bufferOverflows, sequenceGaps, duplicateUpdates, ctxVars,
                   currentSeq, cctx, producerVars, lifeVars, tripVars,
                   snapshots, result, callerPc, calls, faults, ghostVars,
                   waitVars, interactions, typeVars, configVars>>

\* variant: the consumer leaves only once the channel is drained
ConsumerDoneDrained ==
    /\ cpc = "select"
    /\ Done(cctx)
    /\ modelChan = <<>>
    /\ cpc' = "exited"
    /\ UNCHANGED <<syncVars, ctxVars, update, currentSeq, cctx, producerVars,
                   lifeVars, tripVars, snapshots, result, callerPc, calls,
                   faults, ghostVars, waitVars,
                   interactions, typeVars, configVars>>

\* case <-d.ctx.Done(): return
ConsumerDone ==
    /\ cpc = "select"
    /\ Done(cctx)
    /\ cpc' = "exited"
    /\ UNCHANGED <<syncVars, ctxVars, update, currentSeq, cctx, producerVars,
                   lifeVars, tripVars, snapshots, result, callerPc, calls,
                   faults, ghostVars, waitVars,
                   interactions, typeVars, configVars>>

\* currentSeq := atomic.LoadInt64(&d.lastProcessedSeq)
ConsumerLoad ==
    /\ cpc = "load"
    /\ currentSeq' = lastProcessedSeq
    /\ cpc' = "classify"
    /\ UNCHANGED <<syncVars, ctxVars, update, cctx, producerVars, lifeVars,
                   tripVars, snapshots, result, callerPc, calls, faults,
                   ghostVars, waitVars, interactions, typeVars, configVars>>

\* if update.sequence <= currentSeq { duplicateUpdates++; continue }
ConsumerDuplicate ==
    /\ cpc = "classify"
    /\ IsDuplicate(update.sequence, currentSeq)
    /\ duplicateUpdates' = duplicateUpdates + 1
    /\ cpc' = "select"
    /\ cctx' = ctxCur
    /\ UNCHANGED <<modelChan, latestModel, latestSeq, updateSeq,
                   lastProcessedSeq, droppedUpdates, updatesSent,
                   updatesProcessed, bufferOverflows, sequenceGaps, ctxVars,
                   update, currentSeq, producerVars, lifeVars, tripVars,
                   snapshots, result, callerPc, calls, faults, ghostVars,
                   waitVars, interactions, typeVars, configVars>>

\* if update.sequence > currentSeq+1 { sequenceGaps++ }
ConsumerClassify ==
    /\ cpc = "classify"
    /\ ~IsDuplicate(update.sequence, currentSeq)
    /\ sequenceGaps' = IF IsGap(update.sequence, currentSeq)
                       THEN sequenceGaps + 1 ELSE sequenceGaps
    /\ cpc' = "lock"
    /\ UNCHANGED <<modelChan, latestModel, latestSeq, updateSeq,
                   lastProcessedSeq, droppedUpdates, updatesSent,
                   updatesProcessed, bufferOverflows, duplicateUpdates,
                   ctxVars, update, currentSeq, cctx, producerVars, lifeVars,
                   tripVars, snapshots, result, callerPc, calls, faults,
                   ghostVars, waitVars, interactions, typeVars, configVars>>

\* d.modelMu.Lock(); d.latestModel = update.model
ConsumerSetLatest ==
    /\ cpc = "lock"
    /\ latestModel' = update.model
    /\ latestSeq' = update.sequence
    /\ cpc' = "store"
    /\ UNCHANGED <<modelChan, updateSeq, lastProcessedSeq, droppedUpdates,
                   updatesSent, updatesProcessed, bufferOverflows,
                   sequenceGaps, duplicateUpdates, ctxVars, update,
                   currentSeq, cctx, producerVars, lifeVars, tripVars,
                   snapshots, result, callerPc, calls, faults, ghostVars,
                   waitVars, interactions, typeVars, configVars>>

\* atomic.StoreInt64(&d.lastProcessedSeq, update.sequence)
ConsumerStoreSeq ==
    /\ cpc = "store"
    /\ lastProcessedSeq' = update.sequence
    /\ cpc' = "count"
    /\ UNCHANGED <<modelChan, latestModel, latestSeq, updateSeq,
                   droppedUpdates, updatesSent, updatesProcessed,
                   bufferOverflows, sequenceGaps, duplicateUpdates, ctxVars,
                   update, currentSeq, cctx, producerVars, lifeVars, tripVars,
                   snapshots, result, callerPc, calls, faults, ghostVars,
                   waitVars, interactions, typeVars, configVars>>

\* atomic.AddInt64(&d.updatesProcessed, 1); d.modelMu.Unlock(); next select
ConsumerCount ==
    /\ cpc = "count"
    /\ updatesProcessed' = updatesProcessed + 1
    /\ cpc' = "select"
    /\ cctx' = ctxCur
    /\ UNCHANGED <<modelChan, latestModel, latestSeq, updateSeq,
                   lastProcessedSeq, droppedUpdates, updatesSent,
                   bufferOverflows, sequenceGaps, duplicateUpdates, ctxVars,
                   update, currentSeq, producerVars, lifeVars, tripVars,
                   snapshots, result, callerPc, calls, faults, ghostVars,
                   waitVars, interactions, typeVars, configVars>>

\* ------------------------------------------------------- session context
\* the deadline of context.WithTimeout(context.Background(), Timeout) fires
Deadline ==
    /\ ~Done(ctxCur)
    /\ cancel
    /\ UNCHANGED <<syncVars, ctxCur, consumerVars, producerVars, lifeVars,
                   tripVars, snapshots, result, callerPc, calls, faults,
                   ghostVars, waitVars, interactions, typeVars, configVars>>

\* ----------------------------------------------------------- caller thread
CallerFree == callerPc = "idle" /\ calls < MaxCalls

\* timeouts passed to WithTimeout
Timeouts == {"short"}

\* variant: the mutators are honoured whenever they are called
HonouredAlways(isStarted) == TRUE

\* if d.started { d.t.Logf(...); return d }
Honoured(isStarted) == ~isStarted

\* StageDirector.WithTimeout(timeout)
WithTimeout(timeout) ==
    /\ CallerFree
    /\ calls' = calls + 1
    /\ IF Honoured(started)
       THEN /\ cancel
            /\ ctxCur' = ctxCur + 1
            /\ cfgTimeout' = timeout
            /\ unsynced' = FALSE
            /\ warned' = warned
       ELSE /\ warned' = "WithTimeout"
            /\ UNCHANGED <<ctxVars, cfgTimeout, unsynced>>
    /\ UNCHANGED <<syncVars, consumerVars, producerVars, lifeVars, tripVars,
                   snapshots, result, callerPc, faults, ghostVars, wait,
                   timer, interactions, typeVars, closed, policy, exclusive,
                   reported, shot,
                   lockVars>>

\* StageDirector.WithViewCapture(enabled)
WithViewCapture(enabled) ==
    /\ CallerFree
    /\ calls' = calls + 1
    /\ IF Honoured(started)
       THEN /\ captureViews' = enabled
            /\ warned' = warned
       ELSE /\ warned' = "WithViewCapture"
            /\ captureViews' = captureViews
    /\ UNCHANGED <<syncVars, ctxVars, consumerVars, producerVars, program,
                   quit, started, tripVars, snapshots, result, callerPc,
                   faults, ghostVars, waitVars, interactions, typeVars,
                   cfgTimeout, closed, policy, exclusive, reported,
                   shot,
                   lockVars>>

\* StageDirector.Start up to `go func() { d.program.Run() }()`
StartLaunch ==
    /\ CallerFree
    /\ ~started
    /\ calls' = calls + 1
    /\ program' = "running"
    /\ quit' = FALSE
    /\ callerPc' = "starting"
    /\ UNCHANGED <<syncVars, ctxVars, consumerVars, producerVars, started,
                   captureViews, tripVars, snapshots, result, faults,
                   ghostVars, waitVars, interactions, typeVars, configVars>>

\* StageDirector.Start on an already started director: warning only
StartAgain ==
    /\ CallerFree
    /\ started
    /\ calls' = calls + 1
    /\ warned' = "Start"
    /\ UNCHANGED <<syncVars, ctxVars, consumerVars, producerVars, lifeVars,
                   tripVars, snapshots, result, callerPc, faults, ghostVars,
                   waitVars, interactions, typeVars, cfgTimeout, closed,
                   policy, exclusive, reported, shot,
                   lockVars>>

\* waitForProgramReady returns nil: started = true, initial snapshot
StartReady ==
    /\ callerPc = "starting"
    /\ ~Done(ctxCur)
    /\ ~WriteLocked
    /\ View(latestModel) # ""
    /\ started' = TRUE
    /\ snapshots' = IF captureViews
                    THEN Append(snapshots, Snapshot("initial"))
                    ELSE snapshots
    /\ callerPc' = "idle"
    /\ UNCHANGED <<syncVars, ctxVars, consumerVars, producerVars, program,
                   quit, captureViews, tripVars, result, calls, faults,
                   ghostVars, waitVars, interactions, typeVars, configVars>>

\* waitForProgramReady returns an error: STARTUP_FAILED trip
StartFail ==
    /\ callerPc = "starting"
    /\ Done(ctxCur) \/ (~WriteLocked /\ View(latestModel) = "")
    /\ recordTrip(newStageTrip("STARTUP_FAILED"))
    /\ unsynced' = FALSE
    /\ callerPc' = "idle"
    /\ UNCHANGED <<syncVars, ctxVars, consumerVars, producerVars, lifeVars,
                   snapshots, result, calls, faults, ghostVars, wait, timer,
                   interactions, typeVars, configVars>>

\* variant: only a Fall makes the session unsuccessful
SuccessUnlessFall(isFailed, last) == last.severity # "Fall"

\* success := !d.failed && (d.lastTrip == nil)
Success(isFailed, last) == ~isFailed /\ last = NoTrip

\* StageDirector.Stop
Stop ==
    /\ CallerFree
    /\ calls' = calls + 1
    /\ (captureViews /\ started) => ~WriteLocked
    /\ snapshots' = IF captureViews /\ started
                    THEN Append(snapshots, Snapshot("final"))
                    ELSE snapshots
    /\ cancel
    /\ quit' = (quit \/ program # "nil")
    /\ unsynced' = FALSE
    /\ result' = [success |-> Success(failed, lastTrip),
                  error |-> lastTrip.type]
    /\ UNCHANGED <<syncVars, ctxCur, consumerVars, producerVars, program,
                   started, captureViews, tripVars, callerPc, faults,
                   ghostVars, wait, timer,
                   interactions, typeVars, configVars>>

\* the bubbletea event loop of d.program returns after Quit()
ProgramExit ==
    /\ program = "running"
    /\ quit
    /\ ppc["prog"] = "idle"
    /\ inbox = NoKey
    /\ program' = "exited"
    /\ UNCHANGED <<syncVars, ctxVars, consumerVars, producerVars, quit,
                   started, captureViews, tripVars, snapshots, result,
                   callerPc, calls, faults, ghostVars, waitVars,
                   interactions, typeVars, configVars>>

\* getCurrentView / getCurrentMode / getCurrentInput: RLock, copy, RUnlock
Read ==
    /\ callerPc = "idle"
    /\ ~WriteLocked
    /\ observedSeq' = latestSeq
    /\ UNCHANGED <<syncVars, ctxVars, consumerVars, producerVars, lifeVars,
                   tripVars, snapshots, result, callerPc, calls, faults,
                   created, newest, published, waitVars,
                   interactions, typeVars, configVars>>

\* ------------------------------------- WaitForText / WaitForMode / asserts
\* the predicate a wait polls, evaluated on model state m
Holds(w, m) ==
    IF w.kind = "text" THEN Contains(View(m), w.expected)
                       ELSE Mode(m) = w.expected

\* the trip built in the timeout case of the wait w
TimeoutTrip(w) ==
    IF w.kind = "text"
    THEN newStageTrip("WAIT_TEXT_TIMEOUT") @@ [expected_text |-> w.expected]
    ELSE newStageTrip("WAIT_MODE_TIMEOUT") @@ [expected_mode |-> w.expected]

\* values the caller thread's unsynchronized read of d.failed may return
FailedSeen == IF unsynced THEN {FALSE, failed} ELSE {failed}

\* variant: the wait never short-circuits
WaitSkipsNever(seen) == FALSE

\* if d.failed { return d }
WaitSkips(seen) == seen

\* WaitForText(expected) / WaitForMode(expected) up to the first select:
\* the d.failed check and time.NewTimer(d.config.Timeout)
WaitCall(kind, expected) ==
    /\ CallerFree
    /\ calls' = calls + 1
    /\ wait' = [kind |-> kind, expected |-> expected, failedAtCall |-> failed,
                polled |-> FALSE, held |-> FALSE, timedOut |-> FALSE]
    /\ timer' = FALSE
    /\ \E seen \in FailedSeen :
          callerPc' = IF WaitSkips(seen) THEN "idle" ELSE "waiting"
    /\ UNCHANGED <<syncVars, ctxVars, consumerVars, producerVars, lifeVars,
                   tripVars, snapshots, result, faults, ghostVars, unsynced,
                   interactions, typeVars, configVars>>

\* d.config.Timeout elapses: time passes while the wait sleeps between polls
WaitTimerFire ==
    /\ callerPc = "sleeping"
    /\ ~timer
    /\ timer' = TRUE
    /\ UNCHANGED <<syncVars, ctxVars, consumerVars, producerVars, lifeVars,
                   tripVars, snapshots, result, callerPc, calls, faults,
                   ghostVars, wait, unsynced,
                   interactions, typeVars, configVars>>

\* select, default case (no other case is ready): test the predicate on
\* getCurrentView()/getCurrentMode(), return or time.Sleep(10ms)
WaitPoll ==
    /\ callerPc = "waiting"
    /\ ~timer
    /\ ~Done(ctxCur)
    /\ ~WriteLocked
    /\ wait' = [wait EXCEPT !.polled = TRUE,
                            !.held = Holds(wait, latestModel)]
    /\ callerPc' = IF Holds(wait, latestModel) THEN "idle" ELSE "sleeping"
    /\ UNCHANGED <<syncVars, ctxVars, consumerVars, producerVars, lifeVars,
                   tripVars, snapshots, result, calls, faults, ghostVars,
                   timer, unsynced, interactions, typeVars, configVars>>

\* time.Sleep(10 * time.Millisecond) returns
WaitWake ==
    /\ callerPc = "sleeping"
    /\ callerPc' = "waiting"
    /\ UNCHANGED <<syncVars, ctxVars, consumerVars, producerVars, lifeVars,
                   tripVars, snapshots, result, calls, faults, ghostVars,
                   waitVars, interactions, typeVars, configVars>>

\* select, case <-timeout.C: build the trip (reads the current state),
\* recordTrip, return
WaitTimeout ==
    /\ callerPc = "waiting"
    /\ timer
    /\ ~WriteLocked
    /\ recordTrip(TimeoutTrip(wait))
    /\ wait' = [wait EXCEPT !.timedOut = TRUE]
    /\ unsynced' = FALSE
    /\ callerPc' = "idle"
    /\ UNCHANGED <<syncVars, ctxVars, consumerVars, producerVars, lifeVars,
                   snapshots, result, calls, faults, ghostVars, timer,
                   interactions, typeVars, configVars>>

\* select, case <-d.ctx.Done(): return
WaitCancelled ==
    /\ callerPc = "waiting"
    /\ Done(ctxCur)
    /\ unsynced' = FALSE
    /\ callerPc' = "idle"
    /\ UNCHANGED <<syncVars, ctxVars, consumerVars, producerVars, lifeVars,
                   tripVars, snapshots, result, calls, faults, ghostVars,
                   wait, timer, interactions, typeVars, configVars>>

\* a StageAction as recordStageAction builds it
StageAction(type, details) == [type |-> type, details |-> details]

\* d.recordStageAction(type, details)
recordStageAction(type, details) ==
    interactions' = Append(interactions, StageAction(type, details))

\* StageDirector.AssertViewContains(text)
AssertViewContains(text) ==
    /\ CallerFree
    /\ calls' = calls + 1
    /\ ~WriteLocked
    /\ IF Contains(View(latestModel), text)
       THEN /\ recordStageAction("assertion", <<"contains", text>>)
            /\ UNCHANGED <<tripVars, unsynced>>
       ELSE /\ recordTrip(newStageTrip("assertion")
                           @@ [expected |-> text,
                               actual_view |-> View(latestModel)])
            /\ unsynced' = FALSE
            /\ interactions' = interactions
    /\ UNCHANGED <<syncVars, ctxVars, consumerVars, producerVars, lifeVars,
                   snapshots, result, callerPc, faults, ghostVars, wait,
                   timer, typeVars, configVars>>

\* modes and inputs the test asserts
AssertedModes == {"initial", "result"}
AssertedInputs == {"", "a"}

\* StageDirector.AssertMode(expectedMode)
AssertMode(expectedMode) ==
    /\ CallerFree
    /\ calls' = calls + 1
    /\ ~WriteLocked
    /\ IF Mode(latestModel) = expectedMode
       THEN /\ recordStageAction("assertion", <<"mode", expectedMode>>)
            /\ UNCHANGED <<tripVars, unsynced>>
       ELSE /\ recordTrip(newStageTrip("assertion")
                           @@ [expected |-> expectedMode,
                               actual |-> Mode(latestModel)])
            /\ unsynced' = FALSE
            /\ interactions' = interactions
    /\ UNCHANGED <<syncVars, ctxVars, consumerVars, producerVars, lifeVars,
                   snapshots, result, callerPc, faults, ghostVars, wait,
                   timer, typeVars, configVars>>

\* StageDirector.AssertInputEquals(expected)
AssertInputEquals(expected) ==
    /\ CallerFree
    /\ calls' = calls + 1
    /\ ~WriteLocked
    /\ IF inputOf[latestModel] = expected
       THEN /\ recordStageAction("assertion", <<"input", expected>>)
            /\ UNCHANGED <<tripVars, unsynced>>
       ELSE /\ recordTrip(newStageTrip("assertion")
                           @@ [expected |-> expected,
                               actual |-> inputOf[latestModel]])
            /\ unsynced' = FALSE
            /\ interactions' = interactions
    /\ UNCHANGED <<syncVars, ctxVars, consumerVars, producerVars, lifeVars,
                   snapshots, result, callerPc, faults, ghostVars, wait,
                   timer, typeVars, configVars>>

\* REPLModel.CheckCondition(condition) of a model state: search results are
\* what mode "result" displays
CheckCondition(m, condition) ==
    condition = "search_results" /\ Mode(m) = "result"

\* StageDirector.AssertNoSearchResults: d.latestModel is read directly,
\* without d.modelMu, so the step is taken whether or not the consumer
\* holds the write lock; the trip is built with a nil context
AssertNoSearchResults ==
    /\ CallerFree
    /\ calls' = calls + 1
    /\ IF CheckCondition(latestModel, "search_results")
       THEN /\ recordTrip(newStageTrip("assertion"))
            /\ unsynced' = FALSE
            /\ interactions' = interactions
       ELSE /\ recordStageAction("assertion", <<"no_search_results">>)
            /\ UNCHANGED <<tripVars, unsynced>>
    /\ UNCHANGED <<syncVars, ctxVars, consumerVars, producerVars, lifeVars,
                   snapshots, result, callerPc, faults, ghostVars, wait,
                   timer, typeVars, configVars>>

\* ------------------------------------------------------------------- Type
\* texts the test types
TypedTexts == {<<"a">>, <<"a", "b">>}

\* what getCurrentView() returns for model state m: the program renders
\* its view together with its input buffer
Rendered(m) == <<View(m), inputOf[m]>>

\* the rune Type is about to send
Rune == typing.text[typing.i]

\* variant: Type takes no lock
LockUnguarded(who) == updateMu' = who

\* d.updateMu.Lock(), which returns once no other thread holds the mutex
Lock(who) ==
    /\ updateMu = "none"
    /\ updateMu' = who

\* Type: d.recordStageAction("type", string(char)) and the next iteration of
\* the loop over text; after the last one the deferred d.updateMu.Unlock().
\* PressBackspace takes the same steps without the mutex
KeyRecorded ==
    /\ recordStageAction(IF Rune = Backspace THEN "keypress" ELSE "type", Rune)
    /\ callerPc' = IF typing.i = Len(typing.text) THEN "idle" ELSE "key"
    /\ updateMu' = IF typing.i = Len(typing.text) /\ updateMu = "caller"
                   THEN "none"
                   ELSE updateMu

\* StageDirector.Type(text) up to the first sendMessage; before, base and
\* started remember the input, the length of the action log and d.started
\* at the call
TypeCall(text) ==
    /\ CallerFree
    /\ calls' = calls + 1
    /\ typing' = [text |-> text, i |-> 1, prev |-> NoTyping.prev,
                  before |-> inputOf[latestModel],
                  base |-> Len(interactions), started |-> started]
    /\ callerPc' = "key"
    /\ Lock("caller")
    /\ UNCHANGED <<syncVars, ctxVars, consumerVars, producerVars, lifeVars,
                   tripVars, snapshots, result, faults, ghostVars, waitVars,
                   interactions, inbox, progInput, inputOf, setupVars,
                   rival>>

\* StageDirector.ClearInput up to the first PressBackspace: the loop ranges
\* over the input read once by getCurrentInput()
ClearCall ==
    /\ CallerFree
    /\ ~WriteLocked
    /\ calls' = calls + 1
    /\ LET n == Len(inputOf[latestModel])
       IN  IF n = 0
           THEN UNCHANGED <<typing, callerPc>>
           ELSE /\ typing' = [text |-> [k \in 1..n |-> Backspace], i |-> 1,
                              prev |-> NoTyping.prev,
                              before |-> inputOf[latestModel],
                              base |-> Len(interactions), started |-> started]
                /\ callerPc' = "key"
    /\ UNCHANGED <<syncVars, ctxVars, consumerVars, producerVars, lifeVars,
                   tripVars, snapshots, result, faults, ghostVars, waitVars,
                   interactions, inbox, progInput, inputOf, configVars>>

\* sendMessage with d.program == nil: nothing is sent
KeySkip ==
    /\ callerPc = "key"
    /\ program = "nil"
    /\ KeyRecorded
    /\ typing' = [typing EXCEPT !.i = @ + 1]
    /\ UNCHANGED <<syncVars, ctxVars, consumerVars, producerVars, lifeVars,
                   tripVars, snapshots, result, calls, faults, ghostVars,
                   waitVars, inbox, progInput, inputOf, setupVars, rival>>

\* sendMessage: currentView := d.getCurrentView(); d.program.Send(msg),
\* which hands msg to the event loop once the loop is free, or returns
\* without delivering it when the program has finished or been told to
\* quit; then time.NewTimer of waitForViewChange
KeySend ==
    /\ callerPc = "key"
    /\ program # "nil"
    /\ ~WriteLocked
    /\ IF program = "running" /\ ~quit
       THEN /\ ppc["prog"] = "idle"
            /\ inbox = NoKey
            /\ inbox' = Rune
       ELSE inbox' = inbox
    /\ typing' = [typing EXCEPT !.prev = Rendered(latestModel)]
    /\ timer' = FALSE
    /\ callerPc' = "viewwait"
    /\ UNCHANGED <<syncVars, ctxVars, consumerVars, producerVars, lifeVars,
                   tripVars, snapshots, result, calls, faults, ghostVars,
                   wait, unsynced, interactions, progInput, inputOf,
                   configVars>>

\* the (at most one second) timeout of waitForViewChange elapses
ViewTimerFire ==
    /\ callerPc = "viewwait"
    /\ ~timer
    /\ timer' = TRUE
    /\ UNCHANGED <<syncVars, ctxVars, consumerVars, producerVars, lifeVars,
                   tripVars, snapshots, result, callerPc, calls, faults,
                   ghostVars, wait, unsynced, interactions, typeVars,
                   configVars>>

\* waitForViewChange, default case: the view differs from previousView
\* (an unchanged view leads to time.Sleep(2ms) and the same select again)
ViewChanged ==
    /\ callerPc = "viewwait"
    /\ ~timer
    /\ ~Done(ctxCur)
    /\ ~WriteLocked
    /\ Rendered(latestModel) # typing.prev
    /\ callerPc' = "capture"
    /\ UNCHANGED <<syncVars, ctxVars, consumerVars, producerVars, lifeVars,
                   tripVars, snapshots, result, calls, faults, ghostVars,
                   waitVars, interactions, typeVars, configVars>>

\* variant: the timeout is recorded as a trip, as WaitForText does
GiveUpAsTrip ==
    /\ recordTrip(newStageTrip("VIEW_CHANGE_TIMEOUT"))
    /\ unsynced' = FALSE

\* waitForViewChange, case <-timer.C: log and return
GiveUp == UNCHANGED <<tripVars, unsynced>>

\* waitForViewChange, case <-timer.C
ViewTimeout ==
    /\ callerPc = "viewwait"
    /\ timer
    /\ GiveUp
    /\ callerPc' = "capture"
    /\ UNCHANGED <<syncVars, ctxVars, consumerVars, producerVars, lifeVars,
                   snapshots, result, calls, faults, ghostVars, wait, timer,
                   interactions, typeVars, configVars>>

\* waitForViewChange, case <-d.ctx.Done(): return
ViewCancelled ==
    /\ callerPc = "viewwait"
    /\ Done(ctxCur)
    /\ callerPc' = "capture"
    /\ UNCHANGED <<syncVars, ctxVars, consumerVars, producerVars, lifeVars,
                   tripVars, snapshots, result, calls, faults, ghostVars,
                   waitVars, interactions, typeVars, configVars>>

\* sendMessage: d.captureSnapshot("interaction") and the final
\* getCurrentView(); then, back in Type, the action is recorded
KeyDone ==
    /\ callerPc = "capture"
    /\ ~WriteLocked
    /\ snapshots' = IF captureViews
                    THEN Append(snapshots, Snapshot("interaction"))
                    ELSE snapshots
    /\ KeyRecorded
    /\ typing' = [typing EXCEPT !.i = @ + 1]
    /\ UNCHANGED <<syncVars, ctxVars, consumerVars, producerVars, lifeVars,
                   tripVars, result, calls, faults, ghostVars, waitVars,
                   inbox, progInput, inputOf, setupVars, rival>>

\* ---------------------------------------------- Type on a second goroutine
\* the rune the second goroutine's Type is about to send
RivalRune == RivalText[rival.i]

\* Type: d.recordStageAction("type", string(char)) and the next iteration of
\* the loop over text; after the last one the deferred d.updateMu.Unlock()
RivalRecorded ==
    /\ recordStageAction("type", RivalRune)
    /\ rival' = [rival EXCEPT !.i = @ + 1,
                              !.pc = IF rival.i = Len(RivalText)
                                     THEN "done" ELSE "key"]
    /\ updateMu' = IF rival.i = Len(RivalText) /\ updateMu = "rival"
                   THEN "none"
                   ELSE updateMu

\* StageDirector.Type(RivalText) called from a second goroutine, up to the
\* first sendMessage
RivalCall ==
    /\ rival.pc = "idle"
    /\ Lock("rival")
    /\ rival' = [pc |-> "key", i |-> 1, base |-> Len(interactions)]
    /\ UNCHANGED <<syncVars, ctxVars, consumerVars, producerVars, lifeVars,
                   tripVars, snapshots, result, callerPc, calls, faults,
                   ghostVars, waitVars, interactions, typeVars, setupVars>>

\* sendMessage with d.program == nil: nothing is sent
RivalSkip ==
    /\ rival.pc = "key"
    /\ program = "nil"
    /\ RivalRecorded
    /\ UNCHANGED <<syncVars, ctxVars, consumerVars, producerVars, lifeVars,
                   tripVars, snapshots, result, callerPc, calls, faults,
                   ghostVars, waitVars, typeVars, setupVars>>

\* sendMessage: currentView := d.getCurrentView(); d.program.Send(msg)
RivalSend ==
    /\ rival.pc = "key"
    /\ program # "nil"
    /\ ~WriteLocked
    /\ IF program = "running" /\ ~quit
       THEN /\ ppc["prog"] = "idle"
            /\ inbox = NoKey
            /\ inbox' = RivalRune
       ELSE inbox' = inbox
    /\ rival' = [rival EXCEPT !.pc = "wait"]
    /\ UNCHANGED <<syncVars, ctxVars, consumerVars, producerVars, lifeVars,
                   tripVars, snapshots, result, callerPc, calls, faults,
                   ghostVars, waitVars, interactions, progInput, inputOf,
                   typing, setupVars, updateMu>>

\* sendMessage: waitForViewChange returns (the view has changed, its timer
\* has fired or the context is done), d.captureSnapshot("interaction"); then,
\* back in Type, the action is recorded
RivalDone ==
    /\ rival.pc = "wait"
    /\ ~WriteLocked
    /\ snapshots' = IF captureViews
                    THEN Append(snapshots, Snapshot("interaction"))
                    ELSE snapshots
    /\ RivalRecorded
    /\ UNCHANGED <<syncVars, ctxVars, consumerVars, producerVars, lifeVars,
                   tripVars, result, callerPc, calls, faults, ghostVars,
                   waitVars, typeVars, setupVars>>

\* StageDirector.Wait(duration): time.Sleep(duration) and
\* d.recordStageAction("wait", duration); captureSnapshot returns at once
\* when CaptureViews is off
WaitSleep ==
    /\ CallerFree
    /\ calls' = calls + 1
    /\ recordStageAction("wait", "short")
    /\ callerPc' = IF captureViews THEN "readview" ELSE "idle"
    /\ UNCHANGED <<syncVars, ctxVars, consumerVars, producerVars, lifeVars,
                   tripVars, snapshots, result, faults, ghostVars, waitVars,
                   typeVars, configVars>>

\* captureSnapshot: View: d.getCurrentView(), which reads d.latestModel
\* under its own RLock
ReadView ==
    /\ callerPc = "readview"
    /\ ~WriteLocked
    /\ shot' = <<latestModel>>
    /\ callerPc' = "readmode"
    /\ UNCHANGED <<syncVars, ctxVars, consumerVars, producerVars, lifeVars,
                   tripVars, snapshots, result, calls, faults, ghostVars,
                   waitVars, interactions, typeVars, cfgTimeout, closed,
                   policy, warned, exclusive, reported, lockVars>>

\* captureSnapshot: Mode: d.getCurrentMode(), under an RLock of its own
ReadMode ==
    /\ callerPc = "readmode"
    /\ ~WriteLocked
    /\ shot' = Append(shot, latestModel)
    /\ callerPc' = "readinput"
    /\ UNCHANGED <<syncVars, ctxVars, consumerVars, producerVars, lifeVars,
                   tripVars, snapshots, result, calls, faults, ghostVars,
                   waitVars, interactions, typeVars, cfgTimeout, closed,
                   policy, warned, exclusive, reported, lockVars>>

\* captureSnapshot: Input: d.getCurrentInput(), under an RLock of its own,
\* and d.snapshots = append(d.snapshots, snapshot)
ReadInput ==
    /\ callerPc = "readinput"
    /\ ~WriteLocked
    /\ snapshots' = Append(snapshots, [reason |-> "wait", view |-> shot[1],
                                       mode |-> shot[2],
                                       input |-> latestModel])
    /\ shot' = <<>>
    /\ callerPc' = "idle"
    /\ UNCHANGED <<syncVars, ctxVars, consumerVars, producerVars, lifeVars,
                   tripVars, result, calls, faults, ghostVars, waitVars,
                   interactions, typeVars, cfgTimeout, closed, policy,
                   warned, exclusive, reported, lockVars>>

\* Operator.CaptureTrackingShot: a failing CaptureFrame records a Fall
CaptureTrackingShot ==
    /\ CallerFree
    /\ calls' = calls + 1
    /\ \E jam \in BOOLEAN :
          IF jam
          THEN /\ recordTrip(NewFall("visual"))
               /\ unsynced' = FALSE
          ELSE UNCHANGED <<tripVars, unsynced>>
    /\ UNCHANGED <<syncVars, ctxVars, consumerVars, producerVars, lifeVars,
                   snapshots, result, callerPc, faults, ghostVars, wait,
                   timer, interactions, typeVars, configVars>>

\* d.recordTrip(trip.NewStumble(...)): an advisory trip recorded from the
\* caller thread
RecordStumble ==
    /\ CallerFree
    /\ calls' = calls + 1
    /\ recordTrip(NewStumble("timing"))
    /\ UNCHANGED <<syncVars, ctxVars, consumerVars, producerVars, lifeVars,
                   snapshots, result, callerPc, faults, ghostVars, waitVars,
                   interactions, typeVars, configVars>>

\* ------------------------------------------------------------ trip.Handler
\* the trips recorded on a Handler in the model: one of each severity
TripKinds == {NewStumble("timing"), NewTrip("assertion"), NewFall("visual")}

\* h.Record(t) called on the handler itself
HandlerRecord(t) ==
    /\ Len(trips) + Len(stumbles) < MaxRecords
    /\ Record(t)
    /\ UNCHANGED <<syncVars, ctxVars, consumerVars, producerVars, lifeVars,
                   failed, lastTrip, snapshots, result, callerPc, calls,
                   faults, ghostVars, waitVars, interactions, typeVars,
                   configVars>>

\* StageDirector.HasFailed: d.failed || !d.tripHandler.ShouldContinue(),
\* d.failed being read without synchronization
HasFailed ==
    /\ callerPc = "idle"
    /\ \E seen \in FailedSeen :
          reported' = (reported \/ (result = NoResult /\ (seen \/ ~ShouldContinue)))
    /\ UNCHANGED <<syncVars, ctxVars, consumerVars, producerVars, lifeVars,
                   tripVars, snapshots, result, callerPc, calls, faults,
                   ghostVars, waitVars, interactions, typeVars, cfgTimeout,
                   closed, policy, warned, exclusive, shot,
                   lockVars>>

\* StageDirector.HasDroppedUpdates
HasDroppedUpdates ==
    droppedUpdates > 0 \/ bufferOverflows > 0 \/ sequenceGaps > 0

\* ------------------------------------------------ StageDirector.ResetMetrics
\* eight independent atomic stores, in source order
ResetUpdateSeq ==
    /\ CallerFree
    /\ calls' = calls + 1
    /\ updateSeq' = 0
    /\ callerPc' = "reset2"
    /\ UNCHANGED <<modelChan, latestModel, latestSeq, lastProcessedSeq,
                   droppedUpdates, updatesSent, updatesProcessed,
                   bufferOverflows, sequenceGaps, duplicateUpdates, ctxVars,
                   consumerVars, producerVars, lifeVars, tripVars, snapshots,
                   result, faults, ghostVars, waitVars,
                   interactions, typeVars, configVars>>

ResetLastProcessedSeq ==
    /\ callerPc = "reset2"
    /\ lastProcessedSeq' = 0
    /\ callerPc' = "reset3"
    /\ UNCHANGED <<modelChan, latestModel, latestSeq, updateSeq,
                   droppedUpdates, updatesSent, updatesProcessed,
                   bufferOverflows, sequenceGaps, duplicateUpdates, ctxVars,
                   consumerVars, producerVars, lifeVars, tripVars, snapshots,
                   result, calls, faults, ghostVars, waitVars,
                   interactions, typeVars, configVars>>

ResetDroppedUpdates ==
    /\ callerPc = "reset3"
    /\ droppedUpdates' = 0
    /\ callerPc' = "reset4"
    /\ UNCHANGED <<modelChan, latestModel, latestSeq, updateSeq,
                   lastProcessedSeq, updatesSent, updatesProcessed,
                   bufferOverflows, sequenceGaps, duplicateUpdates, ctxVars,
                   consumerVars, producerVars, lifeVars, tripVars, snapshots,
                   result, calls, faults, ghostVars, waitVars,
                   interactions, typeVars, configVars>>

ResetUpdatesSent ==
    /\ callerPc = "reset4"
    /\ updatesSent' = 0
    /\ callerPc' = "reset5"
    /\ UNCHANGED <<modelChan, latestModel, latestSeq, updateSeq,
                   lastProcessedSeq, droppedUpdates, updatesProcessed,
                   bufferOverflows, sequenceGaps, duplicateUpdates, ctxVars,
                   consumerVars, producerVars, lifeVars, tripVars, snapshots,
                   result, calls, faults, ghostVars, waitVars,
                   interactions, typeVars, configVars>>

ResetUpdatesProcessed ==
    /\ callerPc = "reset5"
    /\ updatesProcessed' = 0
    /\ callerPc' = "reset6"
    /\ UNCHANGED <<modelChan, latestModel, latestSeq, updateSeq,
                   lastProcessedSeq, droppedUpdates, updatesSent,
                   bufferOverflows, sequenceGaps, duplicateUpdates, ctxVars,
                   consumerVars, producerVars, lifeVars, tripVars, snapshots,
                   result, calls, faults, ghostVars, waitVars,
                   interactions, typeVars, configVars>>

ResetBufferOverflows ==
    /\ callerPc = "reset6"
    /\ bufferOverflows' = 0
    /\ callerPc' = "reset7"
    /\ UNCHANGED <<modelChan, latestModel, latestSeq, updateSeq,
                   lastProcessedSeq, droppedUpdates, updatesSent,
                   updatesProcessed, sequenceGaps, duplicateUpdates, ctxVars,
                   consumerVars, producerVars, lifeVars, tripVars, snapshots,
                   result, calls, faults, ghostVars, waitVars,
                   interactions, typeVars, configVars>>

ResetSequenceGaps ==
    /\ callerPc = "reset7"
    /\ sequenceGaps' = 0
    /\ callerPc' = "reset8"
    /\ UNCHANGED <<modelChan, latestModel, latestSeq, updateSeq,
                   lastProcessedSeq, droppedUpdates, updatesSent,
                   updatesProcessed, bufferOverflows, duplicateUpdates,
                   ctxVars, consumerVars, producerVars, lifeVars, tripVars,
                   snapshots, result, calls, faults, ghostVars, waitVars,
                   interactions, typeVars, configVars>>

ResetDuplicateUpdates ==
    /\ callerPc = "reset8"
    /\ duplicateUpdates' = 0
    /\ callerPc' = "idle"
    /\ UNCHANGED <<modelChan, latestModel, latestSeq, updateSeq,
                   lastProcessedSeq, droppedUpdates, updatesSent,
                   updatesProcessed, bufferOverflows, sequenceGaps, ctxVars,
                   consumerVars, producerVars, lifeVars, tripVars, snapshots,
                   result, calls, faults, ghostVars, waitVars,
                   interactions, typeVars, configVars>>

\* ------------------------------------------------------------ specification
\* one stageModelWrapper.Update call that publishes, on path p
Publish(p) ==
    \/ ProducerCall(p)
    \/ ProducerGenSeq(p)
    \/ ProducerSend(p)
    \/ ProducerCountSent(p)
    \/ ProducerCountOverflow(p)
    \/ ProducerCountDropped(p)

\* the fail-fast paths of stageModelWrapper.Update on path p
Fault(p) ==
    \/ ProducerPanic(p)
    \/ ProducerInvalid(p)

Consumer ==
    \/ ConsumerStart
    \/ ConsumerReceive
    \/ ConsumerDone
    \/ ConsumerLoad
    \/ ConsumerDuplicate
    \/ ConsumerClassify
    \/ ConsumerSetLatest
    \/ ConsumerStoreSeq
    \/ ConsumerCount

ResetMetrics ==
    \/ ResetUpdateSeq
    \/ ResetLastProcessedSeq
    \/ ResetDroppedUpdates
    \/ ResetUpdatesSent
    \/ ResetUpdatesProcessed
    \/ ResetBufferOverflows
    \/ ResetSequenceGaps
    \/ ResetDuplicateUpdates

\* StageDirector.Type
Type ==
    \/ \E text \in TypedTexts : TypeCall(text)
    \/ KeySkip
    \/ KeySend
    \/ ViewTimerFire
    \/ ViewChanged
    \/ ViewTimeout
    \/ ViewCancelled
    \/ KeyDone

\* StageDirector.ClearInput
ClearInput ==
    \/ ClearCall
    \/ KeySkip
    \/ KeySend
    \/ ViewTimerFire
    \/ ViewChanged
    \/ ViewTimeout
    \/ ViewCancelled
    \/ KeyDone

\* StageDirector.Type on the second goroutine
Rival ==
    \/ RivalCall
    \/ RivalSkip
    \/ RivalSend
    \/ RivalDone

\* StageDirector.Wait
Wait ==
    \/ WaitSleep
    \/ ReadView
    \/ ReadMode
    \/ ReadInput

\* the four assertions
Assertion ==
    \/ \E text \in Texts : AssertViewContains(text)
    \/ \E mode \in AssertedModes : AssertMode(mode)
    \/ \E input \in AssertedInputs : AssertInputEquals(input)
    \/ AssertNoSearchResults

Start ==
    \/ StartLaunch
    \/ StartReady
    \/ StartFail

\* WaitForText / WaitForMode
WaitFor ==
    \/ \E text \in Texts : WaitCall("text", text)
    \/ \E mode \in Modes : WaitCall("mode", mode)
    \/ WaitTimerFire
    \/ WaitPoll
    \/ WaitWake
    \/ WaitTimeout
    \/ WaitCancelled

\* NewStageDirector(model): DefaultStageConfig (CaptureViews on) and an
\* initial model that renders a view
InitDefault ==
    /\ Init
    /\ captureViews
    /\ latestModel = 1

\* One session with the default configuration: both Update paths, the
\* consumer, Start, Stop, the program's exit and the deadline of the session
\* context.
Next ==
    \/ \E p \in Producers : Publish(p)
    \/ Consumer
    \/ Start
    \/ Stop
    \/ ProgramExit
    \/ Deadline

Spec == InitDefault /\ [][Next]_vars

\* Scheduling assumed for liveness: the consumer goroutine keeps being
\* scheduled, and a select with a ready Done() case chooses it eventually
\* (Go picks uniformly among the ready cases).
FairSpec == Spec /\ WF_vars(Consumer) /\ SF_vars(ConsumerDone)

\* The pipeline fed by direct Update calls while the test calls ResetMetrics
\* (ResetMetrics is documented as a testing aid; the benchmarks drive
\* wrapper.Update directly in the same way).
NextReset ==
    \/ Publish("direct")
    \/ Consumer
    \/ ResetMetrics
    \/ Deadline
    \/ Read

SpecReset == Init /\ [][NextReset]_vars

\* The session lifecycle under any configuration: both Update paths, the
\* fail-fast paths of the program's Update, WithTimeout, Start, Stop, the
\* deadline and the program's exit.
NextLife ==
    \/ \E p \in Producers : Publish(p)
    \/ Fault("prog")
    \/ Consumer
    \/ \E timeout \in Timeouts : WithTimeout(timeout)
    \/ Start
    \/ StartAgain
    \/ Stop
    \/ ProgramExit
    \/ Deadline

SpecLife == Init /\ [][NextLife]_vars

\* The waits and assertions of the fluent chain over a running session: both
\* Update paths and the fail-fast paths of the program's Update, the consumer,
\* Start, the deadline, and the caller thread's waits and assertions.
NextWait ==
    \/ \E p \in Producers : Publish(p)
    \/ Fault("prog")
    \/ Consumer
    \/ Start
    \/ WaitFor
    \/ \E text \in Texts : AssertViewContains(text)
    \/ Deadline

SpecWait == InitDefault /\ [][NextWait]_vars

\* Trip recording and the result of Stop on a program that emits no
\* updates: every source of a trip, under any configuration.
NextTrip ==
    \/ Fault("prog")
    \/ \E enabled \in BOOLEAN : WithViewCapture(enabled)
    \/ \E timeout \in Timeouts : WithTimeout(timeout)
    \/ Start
    \/ StartAgain
    \/ WaitFor
    \/ \E text \in Texts : AssertViewContains(text)
    \/ CaptureTrackingShot
    \/ RecordStumble
    \/ Stop
    \/ ProgramExit
    \/ Deadline

SpecTrip == Init /\ [][NextTrip]_vars

\* the assertions against the running pipeline: both Update paths, the
\* consumer, the session deadline and the four assertions
NextAssert ==
    \/ \E p \in Producers : Publish(p)
    \/ Consumer
    \/ Start
    \/ Assertion
    \/ Deadline

SpecAssert == InitDefault /\ [][NextAssert]_vars

\* typing into the running pipeline: both Update paths, the consumer, Start,
\* Type and the session deadline
NextType ==
    \/ \E p \in Producers : Publish(p)
    \/ Consumer
    \/ Start
    \/ Type
    \/ Deadline

SpecType == InitDefault /\ [][NextType]_vars

\* the consumer fed by one Update path, whose sequence numbers arrive in
\* order
ConsumerInOrder ==
    \/ ConsumerStart
    \/ ConsumerReceive
    \/ ConsumerDone
    \/ ConsumerLoad
    \/ ConsumerClassify
    \/ ConsumerSetLatest
    \/ ConsumerStoreSeq
    \/ ConsumerCount

\* keys typed into a program that is updated by its event loop only
NextKeys ==
    \/ Publish("prog")
    \/ ConsumerInOrder
    \/ Start
    \/ Type
    \/ Deadline

SpecKeys == InitDefault /\ [][NextKeys]_vars

\* a program whose input buffer holds text when the session begins
InitClear ==
    /\ InitAnyInput
    /\ policy = DefaultPolicy
    /\ ~exclusive
    /\ captureViews
    /\ latestModel = 1

\* clearing the input of a program that is updated by its event loop only
NextClear ==
    \/ Publish("prog")
    \/ ConsumerInOrder
    \/ Start
    \/ ClearInput
    \/ Deadline

SpecClear == InitClear /\ [][NextClear]_vars

\* snapshots taken by Wait while the program's event loop publishes updates
NextShot ==
    \/ Publish("prog")
    \/ ConsumerInOrder
    \/ Start
    \/ Wait
    \/ Deadline

SpecShot == InitDefault /\ [][NextShot]_vars

\* two goroutines typing into a program that is updated by its event loop
NextRival ==
    \/ Publish("prog")
    \/ ConsumerInOrder
    \/ Start
    \/ Type
    \/ Rival
    \/ Deadline

SpecRival == InitDefault /\ [][NextRival]_vars

\* the trip paths of SpecTrip together with HasFailed
NextReport ==
    \/ NextTrip
    \/ HasFailed

SpecReport == Init /\ [][NextReport]_vars

\* the pipeline of Spec with either way of calling Update
InitSolo ==
    /\ InitAnyPolicy
    /\ policy = DefaultPolicy
    /\ captureViews
    /\ latestModel = 1

SpecSolo == InitSolo /\ [][Next]_vars

\* the trip Handler on its own: built with any policy of the model, trips of
\* every severity recorded on it
InitHandler == InitAnyPolicy /\ policy \in Policies /\ ~exclusive

NextHandler == \E t \in TripKinds : HandlerRecord(t)

SpecHandler == InitHandler /\ [][NextHandler]_vars

\* ------------------------------------------------------------------ claims
\* number of Update calls currently at one of the given positions
AtPc(S) == Cardinality({p \in Producers : ppc[p] \in S})

\* no Update call in flight, nothing queued, the consumer waiting in select
Quiescent ==
    /\ \A p \in Producers : ppc[p] = "idle"
    /\ modelChan = <<>>
    /\ cpc = "select"

\* C1 state part: the queue never exceeds its capacity; an Update call at its
\* send can always take its step, whatever the consumer does; every sequence
\* number generated is accounted for exactly once as sent or as overflow, and
\* every overflow is counted exactly once as dropped.
C1_State ==
    /\ Len(modelChan) <= Capacity
    /\ \A p \in Producers :
          /\ ppc[p] = "send" => ENABLED ProducerSend(p)
          /\ ppc[p] = "sent" => ENABLED ProducerCountSent(p)
          /\ ppc[p] = "overflow" => ENABLED ProducerCountOverflow(p)
          /\ ppc[p] = "dropped" => ENABLED ProducerCountDropped(p)
    /\ updateSeq = updatesSent + bufferOverflows + AtPc({"send", "sent", "overflow"})
    /\ bufferOverflows = droppedUpdates + AtPc({"dropped"})

\* C1 step part: the send enqueues the update when the queue has room, and
\* leaves the queue alone and goes on to count the overflow when it is full.
C1_Step ==
    \A p \in Producers :
        (ppc[p] = "send" /\ ppc'[p] # "send") =>
            IF Len(modelChan) < Capacity
            THEN /\ modelChan' = Append(modelChan, pnew[p])
                 /\ ppc'[p] = "sent"
            ELSE /\ modelChan' = modelChan
                 /\ ppc'[p] = "overflow"

\* C1: publishing never blocks the driven program: with room the update is
\* enqueued, on a full queue it is dropped and bufferOverflows and
\* droppedUpdates each grow by exactly 1; the queue never exceeds capacity.
C1_PublishNeverBlocks == [](C1_State) /\ [][C1_Step]_vars

\* C1 witness: an update was dropped on a full queue, both counters are 1,
\* and the consumer has not taken anything yet (stalled consumer).
C1_Witness ==
    /\ Len(modelChan) = Capacity
    /\ bufferOverflows = 1
    /\ droppedUpdates = 1
    /\ updatesProcessed = 0
    /\ \A p \in Producers : ppc[p] = "idle"

\* C2 (as stated): whenever the latest-state cell can be read, it holds the
\* state of the update whose sequence equals lastProcessedSeq.
C2_LatestIsLastProcessed == ~WriteLocked => latestSeq = lastProcessedSeq

\* C3 (as stated): when the program has stopped producing, the session is
\* not cancelled and the consumer has nothing left to do, a read returns the
\* state produced by the most recent successful Update call.
C3_LatestIsNewest ==
    (Quiescent /\ ~Done(ctxCur) /\ faults = 0) => latestModel = newest

\* C4 (as stated): lastProcessedSeq never decreases.
C4_LastProcessedMonotonic == [][lastProcessedSeq' >= lastProcessedSeq]_vars

\* C5: when the consumer handles a dequeued update whose sequence is <=
\* lastProcessedSeq, duplicateUpdates grows by exactly 1 and latestModel,
\* lastProcessedSeq and updatesProcessed stay as they are; such an update
\* never reaches the critical section.
C5_Step ==
    /\ (cpc = "classify" /\ cpc' # "classify"
            /\ update.sequence <= lastProcessedSeq) =>
          /\ duplicateUpdates' = duplicateUpdates + 1
          /\ cpc' = "select"
          /\ UNCHANGED <<latestModel, latestSeq, lastProcessedSeq,
                         updatesProcessed, sequenceGaps>>
    /\ (cpc' = "lock") => update'.sequence > lastProcessedSeq'

C5_DuplicateDiscarded == [][C5_Step]_vars

\* C5 witness: a stale update (sequence below lastProcessedSeq) was just
\* discarded and the cell still holds the newer state.
C5_Witness ==
    /\ cpc = "select"
    /\ duplicateUpdates = 1
    /\ update.sequence < lastProcessedSeq
    /\ latestSeq = lastProcessedSeq
    /\ latestModel # update.model

\* C6: an update with sequence > lastProcessedSeq + 1 bumps sequenceGaps by 1,
\* one with sequence = lastProcessedSeq + 1 leaves sequenceGaps alone; both
\* are then applied: latestModel := its model, lastProcessedSeq := its
\* sequence, updatesProcessed + 1.
C6_Step ==
    /\ (cpc = "classify" /\ cpc' # "classify"
            /\ update.sequence > lastProcessedSeq) =>
          /\ cpc' = "lock"
          /\ sequenceGaps' = IF update.sequence > lastProcessedSeq + 1
                             THEN sequenceGaps + 1 ELSE sequenceGaps
          /\ UNCHANGED <<latestModel, lastProcessedSeq, updatesProcessed,
                         duplicateUpdates>>
    /\ (cpc = "lock" /\ cpc' # "lock") =>
          /\ latestModel' = update.model
          /\ cpc' = "store"
    /\ (cpc = "store" /\ cpc' # "store") =>
          /\ lastProcessedSeq' = update.sequence
          /\ cpc' = "count"
    /\ (cpc = "count" /\ cpc' # "count") =>
          /\ updatesProcessed' = updatesProcessed + 1
          /\ latestModel = update.model
          /\ lastProcessedSeq = update.sequence
          /\ UNCHANGED <<latestModel, lastProcessedSeq, sequenceGaps>>

C6_GapIsDiagnostic == [][C6_Step]_vars

\* C6 witness: an update that skipped a sequence number has been applied and
\* counted as one gap.
C6_Witness ==
    /\ cpc = "select"
    /\ sequenceGaps = 1
    /\ updatesProcessed = 1
    /\ lastProcessedSeq = 2
    /\ latestModel = update.model

\* C7 (as stated): the sequence number of the state observed by successive
\* reads never decreases.
C7_ReadsMonotonic == [][observedSeq' >= observedSeq]_vars

\* C8 (as stated): no two published updates carry the same sequence number.
C8_Step ==
    \A p \in Producers :
        (ppc[p] = "send" /\ ppc'[p] = "sent") =>
            pnew[p].sequence \notin published

C8_SequencesUnique == [][C8_Step]_vars

\* C9: once the session context is cancelled for good, the consumer
\* eventually leaves its loop; the Done() case is ready as soon as the
\* consumer is at its select, whether or not updates remain queued.
C9_ExitReady == (cpc = "select" /\ Done(ctxCur)) => ENABLED ConsumerDone

C9_ConsumerTerminates ==
    /\ [](C9_ExitReady)
    /\ (<>[](Done(ctxCur))) => <>(cpc = "exited")

\* C9 witness: the consumer has returned on cancellation while an update was
\* still queued.
C9_Witness ==
    /\ cpc = "exited"
    /\ Done(ctxCur)
    /\ modelChan # <<>>

\* C10 (as stated): whenever the session context is cancelled, the running
\* program has been told to quit.
C10_CancelReachesProgram == (program = "running" /\ Done(ctxCur)) => quit

\* C11 (as stated): a wait that returns after its timer has fired leaves
\* exactly one timeout trip of severity Error whose context holds the
\* expected text/mode, and the failed flag is set.
C11_Step ==
    (callerPc = "waiting" /\ callerPc' = "idle" /\ timer) =>
        /\ lastTrip' = TimeoutTrip(wait)
        /\ lastTrip'.severity = "Error"
        /\ trips' = Append(trips, lastTrip')
        /\ failed'

C11_TimeoutLeavesTrip == [][C11_Step]_vars

C13_UnblocksOnCancel ==
    (callerPc \in {"waiting", "sleeping"} /\ Done(ctxCur)) =>
        ENABLED WaitCancelled

\* C14: recording a trip sets failed iff its severity is Error or Fall; a
\* Stumble leaves failed as it was; CanRecover is true exactly for Stumble.
C14_Step ==
    (Len(trips') + Len(stumbles') # Len(trips) + Len(stumbles)) =>
        /\ failed' = (failed \/ lastTrip'.severity \in {"Error", "Fall"})
        /\ lastTrip'.severity = "Stumble" => failed' = failed
        /\ CanRecover(lastTrip') <=> lastTrip'.severity = "Stumble"

C14_FailedIffUnrecoverable == [][C14_Step]_vars

\* C14 witness: a Stumble has been recorded and the session is not failed.
C14_Witness ==
    /\ Len(stumbles) = 1
    /\ trips = <<>>
    /\ lastTrip.severity = "Stumble"
    /\ ~failed

\* C15 (as stated): recording a Fall cancels the session context, recording
\* an Error does not.
C15_Step ==
    (Len(trips') = Len(trips) + 1) =>
        IF lastTrip'.severity = "Fall"
        THEN ctxCur' \in ctxDone'
        ELSE ctxDone' = ctxDone

C15_FallCancels == [][C15_Step]_vars

\* C16 (as stated): a wait called after an Error trip (no Fall recorded, the
\* session not cancelled) still polls the state before it returns.
C16_ErrorKeepsPolling ==
    (/\ callerPc = "idle"
     /\ wait.kind # "none"
     /\ wait.failedAtCall
     /\ \A i \in 1..Len(trips) : trips[i].severity = "Error"
     /\ ~Done(ctxCur)) => wait.polled

\* C17 (as stated): the result of Stop has success = FALSE iff the failed
\* flag is set.
C17_Step == (result' # result) => (result'.success = ~failed)

C17_SuccessIffNotFailed == [][C17_Step]_vars

\* C18 (as stated): a panicking or nil-returning Update appends an error
\* snapshot, records a MODEL_PANIC / INVALID_MODEL_STATE trip of Fall
\* severity, sets failed, cancels the session context and publishes nothing.
C18_Step ==
    (faults' = faults + 1) =>
        /\ Len(snapshots') = Len(snapshots) + 1
        /\ trips' = Append(trips, lastTrip')
        /\ lastTrip'.type \in {"MODEL_PANIC", "INVALID_MODEL_STATE"}
        /\ lastTrip'.severity = "Fall"
        /\ failed'
        /\ ctxCur \in ctxDone'
        /\ UNCHANGED <<modelChan, updateSeq, updatesSent>>

C18_FailFastIsFall == [][C18_Step]_vars

\* C19 (as stated): when the readiness gate fails, Start records a
\* STARTUP_FAILED trip of Fall severity, leaves started FALSE and appends no
\* snapshot; when it passes, started becomes TRUE and exactly one initial
\* snapshot is appended iff view capture is enabled.
C19_Step ==
    (callerPc = "starting" /\ callerPc' = "idle") =>
        IF started'
        THEN /\ snapshots' = IF captureViews
                             THEN Append(snapshots, Snapshot("initial"))
                             ELSE snapshots
             /\ UNCHANGED tripVars
        ELSE /\ lastTrip'.type = "STARTUP_FAILED"
             /\ lastTrip'.severity = "Fall"
             /\ trips' = Append(trips, lastTrip')
             /\ snapshots' = snapshots

C19_StartupGate == [][C19_Step]_vars

\* C20 (as stated): once Start has been called (d.program is set), a further
\* Start call launches no program and enters no readiness wait.
C20_Step ==
    (program # "nil" /\ callerPc = "idle") => callerPc' # "starting"

C20_StartIdempotent == [][C20_Step]_vars

\* C21 (as stated): Stop on a director whose Start was never called returns
\* success = FALSE with a "never started" error and changes nothing: the
\* session context, the program, the logs and the trip state stay as they
\* were.
C21_Step ==
    (Stop /\ program = "nil" /\ ~started) =>
        /\ result'.success = FALSE
        /\ result'.error = "never started"
        /\ UNCHANGED <<ctxVars, quit, snapshots, interactions, tripVars>>

C21_StopUnstartedIsInert == [][C21_Step]_vars

\* C24 (as stated): once Stop has returned, Close() of the driven model
\* (which implements Closeable) has been called.
C24_StopClosesModel == (result # NoResult) => closed

\* C28 (as stated): while CaptureViews is FALSE no step appends to the
\* snapshot log.
C28_Step == ~captureViews => snapshots' = snapshots

C28_NoCaptureNoSnapshot == [][C28_Step]_vars

\* C30 (as stated): a wait that was called on a non-failed director and has
\* returned without ever seeing its predicate hold, with no Stop and no
\* fail-fast handler having run, has recorded its timeout trip, so that the
\* director is failed.
C30_WaitNeverSilent ==
    (/\ callerPc = "idle"
     /\ wait.kind # "none"
     /\ ~wait.failedAtCall
     /\ ~wait.held
     /\ result = NoResult
     /\ faults = 0) => (wait.timedOut /\ failed /\ lastTrip = TimeoutTrip(wait))

\* C23: once Start has succeeded no step changes the configured timeout, the
\* capture flag or the session context, and a mutator called then cancels
\* nothing; a mutator called before that stores its argument (WithTimeout
\* also replaces the session context by a fresh one).
C23_Step ==
    /\ started => UNCHANGED <<cfgTimeout, captureViews, ctxCur>>
    /\ \A timeout \in Timeouts :
          WithTimeout(timeout) =>
              IF started
              THEN UNCHANGED ctxVars
              ELSE /\ cfgTimeout' = timeout
                   /\ ctxCur' # ctxCur
                   /\ ctxCur' \notin ctxDone'
    /\ \A enabled \in BOOLEAN :
          (WithViewCapture(enabled) /\ ~started) => captureViews' = enabled

C23_MutatorsOnlyBeforeStart == [][C23_Step]_vars

\* a mutator was called after a successful Start and ignored
C23_Witness ==
    /\ started
    /\ warned \in {"WithTimeout", "WithViewCapture"}
    /\ cfgTimeout = "default"
    /\ ~Done(ctxCur)

\* C27 state part: a Handler with nothing recorded continues; one holding no
\* Fall and at most MaxStumbles stumbles continues; one holding a Fall under
\* StopOnFall does not; the stumble list holds Stumbles only and the trip
\* list none.
C27_State ==
    /\ (trips = <<>> /\ stumbles = <<>>) => ShouldContinue
    /\ ((\A i \in 1..Len(trips) : ~IsFall(trips[i]))
        /\ Len(stumbles) <= policy.maxStumbles) => ShouldContinue
    /\ (policy.stopOnFall /\ \E i \in 1..Len(trips) : IsFall(trips[i]))
           => ~ShouldContinue
    /\ \A i \in 1..Len(stumbles) : stumbles[i].severity = "Stumble"
    /\ \A i \in 1..Len(trips) : trips[i].severity # "Stumble"

\* C27 step part: Record appends the trip to exactly one of the two lists,
\* chosen by its severity.
C27_Step ==
    \A t \in TripKinds :
        HandlerRecord(t) =>
            IF t.severity = "Stumble"
            THEN stumbles' = Append(stumbles, t) /\ trips' = trips
            ELSE trips' = Append(trips, t) /\ stumbles' = stumbles

\* C27 (amended): as stated, except that more stumbles than MaxStumbles stop
\* the handler only under a positive MaxStumbles.
C27_ShouldContinue ==
    /\ [](C27_State)
    /\ []((policy.maxStumbles > 0 /\ Len(stumbles) > policy.maxStumbles)
             => ~ShouldContinue)
    /\ [][C27_Step]_vars

\* the stumbles of a handler with a positive limit have exceeded it, no Fall
\* is recorded, and the handler stops
C27_Witness ==
    /\ policy.maxStumbles > 0
    /\ Len(stumbles) > policy.maxStumbles
    /\ \A i \in 1..Len(trips) : ~IsFall(trips[i])
    /\ ~ShouldContinue

\* C27 (as stated): once the number of recorded stumbles exceeds MaxStumbles
\* the handler does not continue.
C27_Original == (Len(stumbles) > policy.maxStumbles) => ~ShouldContinue

\* C22 (as stated): once Stop has returned, no step changes the action log
\* or the snapshot log.
C22_Step == (result # NoResult) => UNCHANGED <<interactions, snapshots>>

C22_LogsFrozenAfterStop == [][C22_Step]_vars

\* the outcome C26 requires of an assertion step: on a mismatch exactly one
\* trip of type assertion and severity Error whose context holds the
\* expected and the actual value, and no action; on a match exactly one
\* "assertion" action and no trip
C26_Outcome(mismatch) ==
    IF mismatch
    THEN /\ trips' = Append(trips, lastTrip')
         /\ stumbles' = stumbles
         /\ lastTrip'.type = "assertion"
         /\ lastTrip'.severity = "Error"
         /\ "expected" \in DOMAIN lastTrip'
         /\ {"actual", "actual_view"} \cap DOMAIN lastTrip' # {}
         /\ interactions' = interactions
    ELSE /\ Len(interactions') = Len(interactions) + 1
         /\ interactions'[Len(interactions')].type = "assertion"
         /\ SubSeq(interactions', 1, Len(interactions)) = interactions
         /\ UNCHANGED tripVars

\* C26 (as stated): every step of one of the four assertions has the
\* outcome above, the mismatch being judged on the state the step reads.
C26_Step ==
    /\ \A text \in Texts :
          AssertViewContains(text) =>
              C26_Outcome(~Contains(View(latestModel), text))
    /\ \A mode \in AssertedModes :
          AssertMode(mode) => C26_Outcome(Mode(latestModel) # mode)
    /\ \A input \in AssertedInputs :
          AssertInputEquals(input) =>
              C26_Outcome(inputOf[latestModel] # input)
    /\ AssertNoSearchResults =>
          C26_Outcome(CheckCondition(latestModel, "search_results"))

C26_AssertionOutcome == [][C26_Step]_vars

\* a step of a harness method that reads d.latestModel
C29_ReadsLatest ==
    \/ Assertion
    \/ WaitPoll
    \/ WaitTimeout
    \/ StartReady
    \/ Read

\* C29 (as stated): d.latestModel changes only in the consumer's critical
\* section, and no harness method reads it while the write lock is held.
C29_Step ==
    /\ (latestModel' # latestModel) => (cpc = "lock" /\ WriteLocked')
    /\ C29_ReadsLatest => ~WriteLocked

C29_LockDiscipline == [][C29_Step]_vars

\* the string made of the runes of text
RECURSIVE Joined(_)
Joined(text) == IF text = <<>> THEN "" ELSE Head(text) \o Joined(Tail(text))

\* the 'type' actions Type(typing.text) is to append, in text order
C25_TypeActions ==
    [k \in 1..Len(typing.text) |-> StageAction("type", typing.text[k])]

\* C25 (as stated): on a started director every rune of the text is handed
\* to the program in text order, and when Type returns the action log has
\* grown by one 'type' action per rune, in text order, and the current input
\* is the input before the call followed by the text.
C25_Step ==
    /\ (KeySend /\ typing.started) => inbox' = Rune
    /\ (typing.started /\ callerPc = "capture" /\ callerPc' = "idle") =>
          /\ interactions' =
                 SubSeq(interactions, 1, typing.base) \o C25_TypeActions
          /\ inputOf[latestModel'] = typing.before \o Joined(typing.text)

C25_TypeRoundTrip == [][C25_Step]_vars

\* C31 (as stated, safety part): while the session context stored in the
\* director is neither cancelled nor past its deadline, the background
\* consumer has not returned (a consumer that has returned dequeues nothing
\* any more).
C31_ConsumerAliveWhileLive == (cpc = "exited") => Done(ctxCur)

\* C33 (as stated): every step that appends to the action log or to the
\* snapshot log is a step of the caller thread: it is no step of an Update
\* path and no step of the consumer.
C33_Step ==
    (snapshots' # snapshots \/ interactions' # interactions) =>
        UNCHANGED <<producerVars, faults, consumerVars>>

C33_LogsSingleWriter == [][C33_Step]_vars

\* C40 (as stated): once ResetMetrics has been called, with Update calls
\* that never overlap, the consumer discards no update as a duplicate.
C40_Step == (calls > 0) => ~ConsumerDuplicate

C40_ResetKeepsSync == [][C40_Step]_vars

\* 1 while the consumer holds an update it has dequeued and not yet counted
C38_InHand ==
    IF cpc \in {"load", "classify", "lock", "store", "count"} THEN 1 ELSE 0

\* no Update call and no consumer iteration in progress, nothing queued
C38_AtRest ==
    /\ \A p \in Producers : ppc[p] = "idle"
    /\ modelChan = <<>>
    /\ C38_InHand = 0

\* C38 (amended): each counter lags by exactly the work in progress:
\* bufferOverflows exceeds droppedUpdates by the calls between the two
\* increments, the sequence counter exceeds updatesSent + droppedUpdates by
\* the calls that hold a sequence number not yet counted, and updatesSent,
\* with the enqueued but not yet counted updates, equals the queued, held,
\* processed and duplicate updates.  Hence updatesSent + droppedUpdates never
\* exceeds the sequence counter, and at rest all three relations of the
\* claim are equalities.
C38_CountersConserved ==
    /\ bufferOverflows = droppedUpdates + AtPc({"dropped"})
    /\ updateSeq = updatesSent + droppedUpdates
                       + AtPc({"send", "sent", "overflow", "dropped"})
    /\ updatesSent + AtPc({"sent"}) =
           Len(modelChan) + C38_InHand + updatesProcessed + duplicateUpdates
    /\ updatesSent + droppedUpdates <= updateSeq
    /\ C38_AtRest =>
          /\ bufferOverflows = droppedUpdates
          /\ updatesSent + droppedUpdates = updateSeq
          /\ updatesProcessed + duplicateUpdates = updatesSent

\* at rest after an update was dropped on the full queue and the queued
\* updates were taken by the consumer
C38_Witness ==
    /\ C38_AtRest
    /\ droppedUpdates > 0
    /\ updatesProcessed > 0

\* C38 (as stated): in every reachable state bufferOverflows =
\* droppedUpdates, updatesSent + droppedUpdates <= updates generated and
\* updatesProcessed + duplicateUpdates <= updatesSent; with no Update call in
\* flight and an empty queue the two inequalities are equalities.
C38_Original ==
    /\ bufferOverflows = droppedUpdates
    /\ updatesSent + droppedUpdates <= updateSeq
    /\ updatesProcessed + duplicateUpdates <= updatesSent
    /\ ((\A p \in Producers : ppc[p] = "idle") /\ modelChan = <<>>) =>
          /\ updatesSent + droppedUpdates = updateSeq
          /\ updatesProcessed + duplicateUpdates = updatesSent

\* C39: when Update calls never overlap (and ResetMetrics is not called) no
\* update is discarded as a duplicate, a sequence gap is only ever counted
\* after an update was dropped on the full queue, and HasDroppedUpdates() is
\* true exactly when the full queue has refused an update.
C39_SingleProducerInOrder ==
    exclusive =>
        /\ duplicateUpdates = 0
        /\ sequenceGaps > 0 => droppedUpdates > 0
        /\ HasDroppedUpdates <=> bufferOverflows > 0

\* with calls that never overlap, an update was dropped and the consumer
\* has counted the gap it left
C39_Witness ==
    /\ exclusive
    /\ droppedUpdates > 0
    /\ sequenceGaps > 0
    /\ duplicateUpdates = 0

\* C37: a Stop called after some HasFailed() call has returned true returns
\* a result with success = FALSE.
C37_Step == (Stop /\ reported) => ~result'.success

C36_Step ==
    /\ ViewTimeout =>
          /\ UNCHANGED tripVars
          /\ callerPc' = "capture"
    /\ (KeyDone /\ timer) =>
          /\ UNCHANGED tripVars
          /\ interactions' = Append(interactions, StageAction("type", Rune))

C36_ViewTimeoutIsNoError == [][C36_Step]_vars

\* a key was delivered to the running program, the wait for its view change
\* timed out with the view unchanged, and Type returned with its action
\* recorded and without a trip
C36_Witness ==
    /\ typing.started
    /\ callerPc = "idle"
    /\ timer
    /\ typing.i > Len(typing.text)
    /\ Rendered(latestModel) = typing.prev
    /\ Len(interactions) = typing.base + Len(typing.text)
    /\ lastTrip = NoTrip
    /\ ~failed

\* C35 (as stated): on a started director every pass of ClearInput's loop
\* hands one backspace to the program, the loop makes as many passes as the
\* input read at the call has characters, and when ClearInput returns the
\* current input is empty.
C35_Step ==
    /\ (ClearCall /\ started) =>
          \/ inputOf[latestModel] = "" /\ callerPc' = "idle"
          \/ Len(typing'.text) = Len(inputOf[latestModel])
    /\ (KeySend /\ typing.started /\ Rune = Backspace) => inbox' = Backspace
    /\ (/\ typing.started
        /\ Rune = Backspace
        /\ callerPc = "capture"
        /\ callerPc' = "idle") => inputOf[latestModel'] = ""

C35_ClearInputEmpties == [][C35_Step]_vars

\* C34 (as stated): the view, the mode and the input of every snapshot in
\* the snapshot log were read from one and the same model state.
C34_SnapshotsPointInTime ==
    \A k \in DOMAIN snapshots :
        /\ snapshots[k].view = snapshots[k].mode
        /\ snapshots[k].mode = snapshots[k].input

\* the caller's thread is inside Type's loop
C32_CallerTyping == callerPc \in {"key", "viewwait", "capture"}

\* the second goroutine is inside Type's loop
C32_RivalTyping == rival.pc \in {"key", "wait"}

\* the 'type' actions the first n runes of text make
C32_Typed(text, n) == [k \in 1..n |-> StageAction("type", text[k])]

\* C32: two Type calls are never inside their loops at the same time, so
\* that the key events and the 'type' actions of one call are not mixed with
\* those of the other: while a call is in its loop, the action log past the
\* length it had at the call holds that call's actions only, in text order;
\* and while a typist holds the lock, between keystrokes included, the
\* background consumer can take its next step whenever it has an update in
\* hand or in the queue.
C32_TypeCallsApart ==
    /\ ~(C32_CallerTyping /\ C32_RivalTyping)
    /\ C32_CallerTyping =>
          /\ updateMu = "caller"
          /\ interactions = SubSeq(interactions, 1, typing.base)
                                \o C32_Typed(typing.text, typing.i - 1)
    /\ C32_RivalTyping =>
          /\ updateMu = "rival"
          /\ interactions = SubSeq(interactions, 1, rival.base)
                                \o C32_Typed(RivalText, rival.i - 1)
    /\ (updateMu # "none"
           /\ cpc \in {"load", "classify", "lock", "store", "count"}) =>
          ENABLED Consumer
    /\ (updateMu # "none" /\ cpc = "select" /\ modelChan # <<>>) =>
          ENABLED ConsumerReceive

\* on a started director the caller has typed its two runes and the second
\* goroutine, whose call came after them, has typed its first; the program
\* has taken a key, and the consumer is storing an update while the second
\* typist, between its two keystrokes, holds the lock
C32_Witness ==
    /\ typing.started
    /\ progInput # ""
    /\ rival.base >= typing.base + 2
    /\ Len(typing.text) = 2
    /\ typing.i > Len(typing.text)
    /\ callerPc = "idle"
    /\ updateMu = "rival"
    /\ rival.pc = "key"
    /\ rival.i = 2
    /\ cpc = "store"

====
